---- MODULE Spec2Model ----
(***************************************************************************)
(* Model of the change-detection and delivery pipeline of hellquotes-bot   *)
(* (src/src/watcher.rs, src/src/main.rs).                                  *)
(*                                                                         *)
(*   change sources --notify(3)--> db_watcher thread --quote--> poll_task  *)
(*                                                                         *)
(* The quotes database is written by an external program; the db_watcher   *)
(* thread owns the seen_quotes table; the poll task and the file watcher   *)
(* are tokio tasks wrapped by async_shutdown (wrap_vital / wrap_cancel).   *)
(***************************************************************************)
EXTENDS Integers, Sequences, FiniteSets, TLC

\* Highest id the external store assigns in a run of the model.
MaxId == 2

\* Number of rows the external writer deletes in a run of the model.
MaxDeletes == 1

\* mpsc::channel(3): capacity of the notify channel (watcher.rs:104).
NotifyCapacity == 3

VARIABLES
    quotes,     \* ids of the rows of quotes.quotes (external store)
    lastId,     \* highest id the store has assigned so far
    deletes,    \* rows deleted from the store so far
    seen,       \* ids of main.seen_quotes
    notify,     \* number of () messages buffered in the notify channel
    senders,    \* live Sender handles of the notify channel: "fs", "cmd",
                \* and "timer" when send_timed_checks is spawned
    lastTick,   \* what try_send returned to the latest tick of
                \* send_timed_checks: none, ok, full, closed
    wpc,        \* db_watcher thread: start, idle, query, forward, done, panicked
    wfail,      \* which expect() the thread panicked in: none, create, query, send
    batch,      \* rest of the iterator returned by get_new_and_update_seen
    quoteq,     \* quotes buffered in the unbounded quote channel
    ppc,        \* poll_task: recv, sending, done, cancelled, panicked
    cur,        \* the quote poll_task is sending (0: none)
    delivered,  \* ids send_quote returned Ok for, in order
    shutdown,   \* Shutdown: has a shutdown been triggered
    cause,      \* what triggered the shutdown first
    mainpc,     \* main: running, returned, exited
    exitResult, \* what main returned: none, ok, err
    \* history of the run (read by the properties only)
    sent,       \* every id quote_tx.send accepted, in order
    drainStart, \* Len(sent) when the current drain started
    seen0,      \* seen_quotes as QuoteWatcher::new filled it
    store0,     \* ids of the store when QuoteWatcher::new ran
    woken,      \* blocking_recv has returned a signal at least once
    notified,   \* unseen ids of the store at a try_send attempt, not sent yet
    extra       \* drains started since the signals sent during one running
                \* drain (into an empty channel); -1: no such signals

vars == <<quotes, lastId, deletes, seen, notify, senders, lastTick, wpc, wfail, batch, quoteq, ppc,
          cur, delivered, shutdown, cause, mainpc, exitResult, sent, drainStart,
          seen0, store0, woken, notified, extra>>

storeVars  == <<quotes, lastId, deletes>>
pumpVars   == <<ppc, cur, delivered>>
mainVars   == <<mainpc, exitResult>>
pushHist   == <<notified, extra>>
drainHist  == <<sent, drainStart, seen0, store0, woken>>

----------------------------------------------------------------------------
\* Helpers

Range(s) == {s[i] : i \in DOMAIN s}

\* Every sequence that lists each element of S once.
Orders(S) == {s \in [1..Cardinality(S) -> S] : Range(s) = S}

----------------------------------------------------------------------------
\* The SQL of QuoteWatcher

\* INSERT OR REPLACE INTO main.seen_quotes SELECT id from quotes.quotes
update_seen_skipped(q, s) == s
update_seen_replaced(q, s) == q
update_seen(q, s) == s \cup q

\* CREATE TABLE main.seen_quotes, then update_seen: the table starts with
\* the ids the store holds.
new_seen_table_left_empty(q) == {}
new_seen_table(q) == update_seen(q, {})

\* SELECT ... FROM quotes.quotes WHERE id NOT IN (SELECT id FROM main.seen_quotes)
new_rows_after_update(q, s) == q \ update_seen(q, s)
new_rows(q, s) == q \ s

\* query_map(..).collect(): every selected row. The statement has no
\* ORDER BY: the rows come in any order.
query_results_all_rows(q, s) == Orders(q)
query_results_first_row(q, s) ==
    IF new_rows(q, s) = {} THEN {<<>>} ELSE {<<x>> : x \in new_rows(q, s)}
query_results(q, s) == Orders(new_rows(q, s))

----------------------------------------------------------------------------
\* The channels and the shutdown handle

\* Receiver of the notify channel is alive (owned by the db_watcher closure).
NotifyRxOpen == wpc \notin {"done", "panicked"}

\* quote_tx is alive (owned by the db_watcher closure).
QuoteTxOpen == wpc \notin {"done", "panicked"}

\* quote_rx is alive (owned by poll_task).
QuoteRxOpen == ppc \in {"recv", "sending"}

\* The store matters while the thread holds its connection to it.
StoreAttached == mainpc # "exited" /\ wpc \notin {"done", "panicked"}

\* sender.try_send(()).ok(): buffered unless the channel is full or closed.
try_send_into_closed(n, open) == IF n < NotifyCapacity THEN n + 1 ELSE n
try_send_off_by_one(n, open) == IF open /\ n <= NotifyCapacity THEN n + 1 ELSE n
try_send(n, open) == IF open /\ n < NotifyCapacity THEN n + 1 ELSE n

\* Dropping a vital token (or finishing / dropping a wrap_vital future)
\* triggers the shutdown.
vital_dropped_forgotten(sd) == sd
vital_dropped(sd) == TRUE

\* The first trigger of the shutdown is what caused it.
FirstCause(c) == IF shutdown THEN cause ELSE c

\* Dropping the tokio runtime drops every spawned task.
PumpAfterRuntimeDrop == IF ppc \in {"recv", "sending"} THEN "cancelled" ELSE ppc

\* The ids the current (or latest) drain has sent, in order.
drainSent == SubSeq(sent, drainStart + 1, Len(sent))

----------------------------------------------------------------------------
InitWith(handles) ==
    /\ quotes = {}
    /\ lastId = 0
    /\ deletes = 0
    /\ seen = {}
    /\ notify = 0
    /\ senders = handles
    /\ lastTick = "none"
    /\ wpc = "start"
    /\ wfail = "none"
    /\ batch = <<>>
    /\ quoteq = <<>>
    /\ ppc = "recv"
    /\ cur = 0
    /\ delivered = <<>>
    /\ shutdown = FALSE
    /\ cause = "none"
    /\ mainpc = "running"
    /\ exitResult = "none"
    /\ sent = <<>>
    /\ drainStart = 0
    /\ seen0 = {}
    /\ store0 = {}
    /\ woken = FALSE
    /\ notified = {}
    /\ extra = -1

\* The pipeline as main's setup builds it: send_timed_checks is not spawned.
Init == InitWith({"fs", "cmd"})

\* The pipeline with send_timed_checks spawned on a clone of the Sender.
InitTimer == InitWith({"fs", "cmd", "timer"})

----------------------------------------------------------------------------
\* The external store

AppendQuote ==
    /\ StoreAttached
    /\ \E id \in (lastId + 1)..MaxId :
        /\ quotes' = quotes \cup {id}
        /\ lastId' = id
    /\ UNCHANGED <<deletes, seen, notify, senders, lastTick, wpc, wfail, batch, quoteq, pumpVars,
                   shutdown, cause, mainVars, drainHist, pushHist>>

DeleteQuote ==
    /\ StoreAttached
    /\ deletes < MaxDeletes
    /\ \E id \in quotes : quotes' = quotes \ {id}
    /\ deletes' = deletes + 1
    /\ UNCHANGED <<lastId, seen, notify, senders, lastTick, wpc, wfail, batch, quoteq,
                   pumpVars, shutdown, cause, mainVars, drainHist, pushHist>>

----------------------------------------------------------------------------
\* Change sources

\* A drain is in flight: a signal was received and the loop body runs.
DrainRunning == wpc \in {"query", "forward"}

Push(who) ==
    /\ mainpc = "running"
    /\ who \in senders
    /\ notify' = try_send(notify, NotifyRxOpen)
    /\ notified' = IF wpc \in {"idle", "query", "forward"}
                    THEN notified \cup (quotes \ seen) ELSE notified
    /\ extra' = IF ~NotifyRxOpen THEN extra
                 ELSE IF DrainRunning /\ (notify = 0 \/ extra = 0) THEN 0 ELSE -1
    /\ UNCHANGED <<storeVars, seen, senders, lastTick, wpc, wfail, batch, quoteq, pumpVars,
                   shutdown, cause, mainVars, drainHist>>

\* What try_send returns: Ok, Err(Full) or Err(Closed).
try_send_result(n, open) ==
    IF ~open THEN "closed" ELSE IF n < NotifyCapacity THEN "ok" ELSE "full"

\* match sender.try_send(()) { Err(TrySendError::Closed(())) => shutdown, _ => () }
tick_requests_shutdown_on_any_error(res) == res \in {"closed", "full"}
tick_requests_shutdown(res) == res = "closed"

\* One turn of the loop of send_timed_checks, after interval.tick().
TimerTick ==
    /\ mainpc = "running"
    /\ "timer" \in senders
    /\ notify' = try_send(notify, NotifyRxOpen)
    /\ lastTick' = try_send_result(notify, NotifyRxOpen)
    /\ shutdown' = (shutdown \/ tick_requests_shutdown(lastTick'))
    /\ cause' = IF shutdown' THEN FirstCause("timer_closed") ELSE cause
    /\ notified' = IF wpc \in {"idle", "query", "forward"}
                    THEN notified \cup (quotes \ seen) ELSE notified
    /\ extra' = IF ~NotifyRxOpen THEN extra
                 ELSE IF DrainRunning /\ (notify = 0 \/ extra = 0) THEN 0 ELSE -1
    /\ UNCHANGED <<storeVars, seen, senders, wpc, wfail, batch, quoteq, pumpVars,
                   mainVars, drainHist>>

\* The notify callback of the file watcher.
FsNotify == Push("fs")

\* The quote command, after a successful submission.
CmdNotify == Push("cmd")

----------------------------------------------------------------------------
\* The db_watcher thread

\* Unwinding or leaving the closure drops poller_token, notify_rx, quote_tx.
WorkerDies(how) ==
    /\ wpc' = "panicked"
    /\ wfail' = how
    /\ shutdown' = vital_dropped(shutdown)
    /\ cause' = IF shutdown' THEN FirstCause("worker_fail") ELSE cause

\* QuoteWatcher::new: seen_quotes is created and filled with the existing ids.
WorkerInit ==
    /\ mainpc # "exited"
    /\ wpc = "start"
    /\ seen' = new_seen_table(quotes)
    /\ seen0' = seen'
    /\ store0' = quotes
    /\ wpc' = "idle"
    /\ UNCHANGED <<storeVars, notify, senders, lastTick, wfail, batch, quoteq, pumpVars,
                   shutdown, cause, mainVars, sent, drainStart, woken, pushHist>>

\* QuoteWatcher::new(..).expect("Couldn't create watcher")
WorkerInitFail ==
    /\ mainpc # "exited"
    /\ wpc = "start"
    /\ WorkerDies("create")
    /\ UNCHANGED <<storeVars, seen, notify, senders, lastTick, batch, quoteq, pumpVars,
                   mainVars, drainHist, pushHist>>

\* notify_rx.blocking_recv() returns Some(()): a drain starts.
WorkerRecv ==
    /\ mainpc # "exited"
    /\ wpc = "idle"
    /\ notify > 0
    /\ notify' = notify - 1
    /\ wpc' = "query"
    /\ drainStart' = Len(sent)
    /\ extra' = IF extra >= 0 THEN extra + 1 ELSE extra
    /\ woken' = TRUE
    /\ UNCHANGED <<storeVars, seen, senders, lastTick, wfail, batch, quoteq, pumpVars,
                   shutdown, cause, mainVars, sent, seen0, store0, notified>>

\* notify_rx.blocking_recv() returns None: every sender is gone and the
\* buffer is empty. The loop ends and the closure's captures are dropped.
WorkerRecvClosed ==
    /\ mainpc # "exited"
    /\ wpc = "idle"
    /\ notify = 0
    /\ senders = {}
    /\ wpc' = "done"
    /\ shutdown' = vital_dropped(shutdown)
    /\ cause' = IF shutdown' THEN FirstCause("worker_exit") ELSE cause
    /\ UNCHANGED <<storeVars, seen, notify, senders, lastTick, wfail, batch, quoteq,
                   pumpVars, mainVars, drainHist, pushHist>>

\* get_new_and_update_seen: one transaction selects the new rows and
\* updates seen_quotes; the rows are handed out after the commit.
WorkerQuery ==
    /\ mainpc # "exited"
    /\ wpc = "query"
    /\ \E rows \in query_results(quotes, seen) :
        /\ batch' = rows
        /\ wpc' = IF rows = <<>> THEN "idle" ELSE "forward"
    /\ seen' = update_seen(quotes, seen)
    /\ UNCHANGED <<storeVars, notify, senders, lastTick, wfail, quoteq, pumpVars, shutdown,
                   cause, mainVars, drainHist, pushHist>>

\* .expect("Couldn't poll quotes"): an error before the commit rolls back.
WorkerQueryFail ==
    /\ mainpc # "exited"
    /\ wpc = "query"
    /\ WorkerDies("query")
    /\ UNCHANGED <<storeVars, seen, notify, senders, lastTick, batch, quoteq, pumpVars,
                   mainVars, drainHist, pushHist>>

\* quote_tx.send(quote) on the unbounded channel, receiver alive.
WorkerForward ==
    /\ mainpc # "exited"
    /\ wpc = "forward"
    /\ batch # <<>>
    /\ QuoteRxOpen
    /\ quoteq' = Append(quoteq, Head(batch))
    /\ sent' = Append(sent, Head(batch))
    /\ notified' = notified \ {Head(batch)}
    /\ batch' = Tail(batch)
    /\ wpc' = IF Tail(batch) = <<>> THEN "idle" ELSE "forward"
    /\ UNCHANGED <<storeVars, seen, notify, senders, lastTick, wfail, pumpVars, shutdown,
                   cause, mainVars, drainStart, seen0, store0, woken, extra>>

\* quote_tx.send(quote).expect("Couldn't send quote"): quote_rx was dropped.
WorkerForwardFail ==
    /\ mainpc # "exited"
    /\ wpc = "forward"
    /\ batch # <<>>
    /\ ~QuoteRxOpen
    /\ WorkerDies("send")
    /\ UNCHANGED <<storeVars, seen, notify, senders, lastTick, batch, quoteq, pumpVars,
                   mainVars, drainHist, pushHist>>

WorkerStep ==
    \/ WorkerInit
    \/ WorkerRecv
    \/ WorkerQuery
    \/ WorkerForward

----------------------------------------------------------------------------
\* poll_task (wrap_vital twice, wrap_cancel, tokio::spawn)

\* The task is at quote_rx.recv().await, the head of its loop.
PumpAwaitsRecv_after_cancel == ppc \in {"recv", "cancelled"}
PumpAwaitsRecv_after_panic == ppc \in {"recv", "panicked"}
PumpAwaitsRecv_while_sending == ppc \in {"recv", "sending"}
PumpAwaitsRecv == ppc = "recv"

\* quote_rx.recv().await returns Some(quote).
PumpRecv ==
    /\ mainpc = "running"
    /\ PumpAwaitsRecv
    /\ quoteq # <<>>
    /\ cur' = Head(quoteq)
    /\ quoteq' = Tail(quoteq)
    /\ ppc' = "sending"
    /\ UNCHANGED <<storeVars, seen, notify, senders, lastTick, wpc, wfail, batch, delivered,
                   shutdown, cause, mainVars, drainHist, pushHist>>

\* quote_rx.recv().await returns None: quote_tx is gone and the buffer is
\* empty. The vital future completes, which triggers the shutdown.
PumpRecvClosed ==
    /\ mainpc = "running"
    /\ PumpAwaitsRecv
    /\ quoteq = <<>>
    /\ ~QuoteTxOpen
    /\ ppc' = "done"
    /\ shutdown' = vital_dropped(shutdown)
    /\ cause' = IF shutdown' THEN FirstCause("pump_exit") ELSE cause
    /\ UNCHANGED <<storeVars, seen, notify, senders, lastTick, wpc, wfail, batch, quoteq,
                   cur, delivered, mainVars, drainHist, pushHist>>

\* send_quote(&quote, &disc_http).await returns Ok.
PumpDeliverOk ==
    /\ mainpc = "running"
    /\ ppc = "sending"
    /\ delivered' = Append(delivered, cur)
    /\ cur' = 0
    /\ ppc' = "recv"
    /\ UNCHANGED <<storeVars, seen, notify, senders, lastTick, wpc, wfail, batch, quoteq,
                   shutdown, cause, mainVars, drainHist, pushHist>>

\* send_quote(..).await.expect("Couldn't send quote"): the task panics, tokio
\* drops its future, and with it quote_rx and the vital wrapper.
PumpDeliverFail ==
    /\ mainpc = "running"
    /\ ppc = "sending"
    /\ ppc' = "panicked"
    /\ shutdown' = vital_dropped(shutdown)
    /\ cause' = IF shutdown' THEN FirstCause("deliver_fail") ELSE cause
    /\ UNCHANGED <<storeVars, seen, notify, senders, lastTick, wpc, wfail, batch, quoteq,
                   cur, delivered, mainVars, drainHist, pushHist>>

\* wrap_cancel: after the shutdown the task ends at its await point and
\* its future (quote_rx included) is dropped.
PumpCancel ==
    /\ mainpc = "running"
    /\ shutdown
    /\ ppc \in {"recv", "sending"}
    /\ ppc' = "cancelled"
    /\ UNCHANGED <<storeVars, seen, notify, senders, lastTick, wpc, wfail, batch, quoteq,
                   cur, delivered, shutdown, cause, mainVars, drainHist,
                   pushHist>>

----------------------------------------------------------------------------
\* main and the shutdown handle

\* tokio::signal::ctrl_c() resolves: shutdown.shutdown().
CtrlC ==
    /\ mainpc = "running"
    /\ shutdown' = TRUE
    /\ cause' = FirstCause("ctrlc")
    /\ UNCHANGED <<storeVars, seen, notify, senders, lastTick, wpc, wfail, batch, quoteq,
                   pumpVars, mainVars, drainHist, pushHist>>

\* watcher_task (wrap_cancel): dropped after the shutdown, and with it the
\* file watcher and its Sender.
FsTaskCancel ==
    /\ mainpc = "running"
    /\ shutdown
    /\ "fs" \in senders
    /\ senders' = senders \ {"fs"}
    /\ lastTick' = lastTick
    /\ UNCHANGED <<storeVars, seen, notify, wpc, wfail, batch, quoteq, pumpVars,
                   shutdown, cause, mainVars, drainHist, pushHist>>

\* bot_run.await is None: main returns Ok(()). The framework (its Data and
\* poll_tx) and the runtime (its spawned tasks) are dropped.
MainCancelled ==
    /\ mainpc = "running"
    /\ shutdown
    /\ mainpc' = "returned"
    /\ exitResult' = "ok"
    /\ senders' = {}
    /\ lastTick' = lastTick
    /\ ppc' = PumpAfterRuntimeDrop
    /\ UNCHANGED <<storeVars, seen, notify, wpc, wfail, batch, quoteq, cur,
                   delivered, shutdown, cause, drainHist, pushHist>>

\* bot_run.await is Some(Err(e)): framework.run() failed, the vital wrapper
\* triggers the shutdown, main returns Err(e).
BotFail ==
    /\ mainpc = "running"
    /\ mainpc' = "returned"
    /\ exitResult' = "err"
    /\ shutdown' = vital_dropped(shutdown)
    /\ cause' = IF shutdown' THEN FirstCause("bot_fail") ELSE cause
    /\ senders' = {}
    /\ lastTick' = lastTick
    /\ ppc' = PumpAfterRuntimeDrop
    /\ UNCHANGED <<storeVars, seen, notify, wpc, wfail, batch, quoteq, cur,
                   delivered, drainHist, pushHist>>

\* The process ends after main returned; a thread still running is killed.
ProcessExit ==
    /\ mainpc = "returned"
    /\ mainpc' = "exited"
    /\ UNCHANGED <<storeVars, seen, notify, senders, lastTick, wpc, wfail, batch, quoteq,
                   pumpVars, shutdown, cause, exitResult, drainHist,
                   pushHist>>

----------------------------------------------------------------------------
Next ==
    \/ AppendQuote
    \/ DeleteQuote
    \/ FsNotify
    \/ CmdNotify
    \/ WorkerInit
    \/ WorkerInitFail
    \/ WorkerRecv
    \/ WorkerRecvClosed
    \/ WorkerQuery
    \/ WorkerQueryFail
    \/ WorkerForward
    \/ WorkerForwardFail
    \/ PumpRecv
    \/ PumpRecvClosed
    \/ PumpDeliverOk
    \/ PumpDeliverFail
    \/ PumpCancel
    \/ CtrlC
    \/ FsTaskCancel
    \/ MainCancelled
    \/ BotFail
    \/ ProcessExit

Spec == Init /\ [][Next]_vars

\* A run with no shutdown, no failure and no deletion; the db_watcher
\* thread and the poll task are scheduled fairly.
NextLive ==
    \/ AppendQuote
    \/ FsNotify
    \/ CmdNotify
    \/ WorkerInit
    \/ WorkerRecv
    \/ WorkerQuery
    \/ WorkerForward
    \/ PumpRecv
    \/ PumpDeliverOk

LiveSpec == Init /\ [][NextLive]_vars /\ WF_vars(WorkerStep)

\* The pipeline with send_timed_checks running beside the other producers;
\* rows are only appended, and the bot and the deliverer do not fail.
NextTimer ==
    \/ AppendQuote
    \/ FsNotify
    \/ CmdNotify
    \/ TimerTick
    \/ WorkerInit
    \/ WorkerInitFail
    \/ WorkerRecv
    \/ WorkerRecvClosed
    \/ WorkerQuery
    \/ WorkerQueryFail
    \/ WorkerForward
    \/ WorkerForwardFail
    \/ PumpRecv
    \/ PumpRecvClosed
    \/ PumpDeliverOk
    \/ PumpCancel
    \/ CtrlC
    \/ FsTaskCancel
    \/ MainCancelled
    \/ ProcessExit

TimerSpec == InitTimer /\ [][NextTimer]_vars

\* Every run of the pipeline, with the db_watcher thread, the poll task and
\* the shutdown sequence (task cancellation, main's return, the exit of the
\* process) each scheduled fairly.
WorkerRuns == WorkerStep \/ WorkerRecvClosed

PumpRuns == PumpRecv \/ PumpDeliverOk \/ PumpRecvClosed

ShutdownRuns == PumpCancel \/ FsTaskCancel \/ MainCancelled \/ ProcessExit

FairSpec ==
    /\ Init /\ [][Next]_vars
    /\ WF_vars(WorkerRuns)
    /\ WF_vars(PumpRuns)
    /\ WF_vars(ShutdownRuns)

\* The second stage under fair scheduling: rows are only appended, only the
\* file watcher notifies, and the poll task and the shutdown make progress.
NextDeliver ==
    \/ AppendQuote
    \/ FsNotify
    \/ WorkerInit
    \/ WorkerRecv
    \/ WorkerRecvClosed
    \/ WorkerQuery
    \/ WorkerQueryFail
    \/ WorkerForward
    \/ WorkerForwardFail
    \/ PumpRecv
    \/ PumpRecvClosed
    \/ PumpDeliverOk
    \/ PumpDeliverFail
    \/ PumpCancel
    \/ CtrlC
    \/ FsTaskCancel
    \/ MainCancelled
    \/ ProcessExit

DeliverSpec ==
    /\ Init /\ [][NextDeliver]_vars
    /\ WF_vars(PumpRuns)
    /\ WF_vars(ShutdownRuns)

----------------------------------------------------------------------------
\* Properties

Ids == 1..MaxId

\* The ids sent before the current (or latest) drain started.
sentBefore == Range(SubSeq(sent, 1, drainStart))

\* The ids the current (or latest) drain sends: sent already, or still to send.
drainIds == Range(drainSent) \cup Range(batch)

WorkerEnded == wpc \in {"done", "panicked"}
PumpEnded == ppc \in {"done", "cancelled", "panicked"}

\* C1: no record id is sent on the quote channel more than once, whatever
\* the interleaving of appends, signals and drains.
C1_NoDuplicateForward ==
    \A i, j \in DOMAIN sent : i # j => sent[i] # sent[j]

\* Two drains have each sent a record.
C1_Witness ==
    /\ wpc = "idle"
    /\ drainStart >= 1
    /\ Len(sent) > drainStart

\* C2: the transaction of a drain selects exactly the ids of the store that
\* are not in seen_quotes and marks them seen; the drain sends exactly those
\* ids, each once, and no drain sends an id that an earlier drain sent.
C2_DrainSendsExactlyNew ==
    /\ [][(wpc = "query" /\ wpc' \in {"idle", "forward"}) =>
            /\ Range(batch') = quotes \ seen
            /\ Len(batch') = Cardinality(quotes \ seen)
            /\ seen' = seen \cup quotes]_vars
    /\ [](wpc \in {"idle", "forward"} =>
            /\ drainIds = seen \ (seen0 \cup sentBefore)
            /\ Len(drainSent) + Len(batch) = Cardinality(drainIds)
            /\ drainIds \cap sentBefore = {})

\* A drain has sent two records that were appended since the drain before it.
C2_Witness ==
    /\ wpc = "idle"
    /\ Len(drainSent) = 2
    /\ seen0 = {}

\* C3: a record appended after seen_quotes was initialised, followed by a
\* try_send attempt (accepted or dropped), is eventually sent on the quote
\* channel, when nothing shuts down or fails and the thread is scheduled.
C3_NoLostWakeup ==
    \A x \in Ids : (x \in notified) ~> (x \in Range(sent))

\* A try_send attempt found the channel full while a new record waits.
C3_Witness ==
    /\ notified # {}
    /\ notify = NotifyCapacity
    /\ wpc = "forward"

C5_AscendingWithinDrain ==
    \A i, j \in DOMAIN drainSent : i < j => drainSent[i] < drainSent[j]

\* C6: after a requested shutdown (Ctrl-C, the poll task cancelled) the
\* thread never panics on a send to the dropped quote_rx.
C6_CleanShutdown ==
    (cause = "ctrlc" /\ ppc = "cancelled") => wfail # "send"

\* C7: after a shutdown was requested by Ctrl-C, the process exits only
\* after the db_watcher thread and the poll task have ended.
C7_ExitAfterWorkerAndPump ==
    (mainpc = "exited" /\ cause = "ctrlc" /\ exitResult = "ok") =>
        (WorkerEnded /\ PumpEnded)

\* The shutdown was caused by a failed query, a failed send or a failed
\* delivery.
FatalCause ==
    \/ cause = "worker_fail" /\ wfail \in {"query", "send"}
    \/ cause = "deliver_fail"

\* C8: main returns an error when a failure of the thread or of the
\* delivery caused the shutdown, and Ok only when Ctrl-C caused it.
C8_ExitResultReflectsCause ==
    mainpc # "running" =>
        /\ (FatalCause => exitResult = "err")
        /\ (exitResult = "ok" => ~FatalCause)

\* C9: whenever the thread has died of a failure, the shutdown has been
\* triggered.
C9_WorkerFailureTriggersShutdown ==
    wpc = "panicked" => shutdown

\* The query failed while nothing else had triggered the shutdown.
C9_Witness ==
    /\ wpc = "panicked"
    /\ wfail = "query"
    /\ cause = "worker_fail"

\* C10: once a delivery has failed the shutdown is triggered, and the task
\* takes no further record and delivers nothing more.
C10_DeliveryFailureStopsPump ==
    /\ [](ppc = "panicked" => shutdown)
    /\ [][ppc = "panicked" =>
            /\ ppc' = "panicked"
            /\ delivered' = delivered
            /\ cur' = cur
            /\ quoteq' = quoteq]_vars

\* A delivery failed while another record was still queued.
C10_Witness ==
    /\ ppc = "panicked"
    /\ cause = "deliver_fail"
    /\ quoteq # <<>>

\* C11: after the shutdown was triggered every Sender of the notify channel
\* is eventually dropped and the db_watcher thread eventually ends.
C11_SendersReleasedWorkerEnds ==
    shutdown ~> (senders = {} /\ WorkerEnded)

\* C12: an id that was in the store when seen_quotes was initialised is
\* never sent, taken by the poll task or delivered; and before the first
\* signal is received nothing is sent or delivered.
C12_PreexistingNeverForwarded ==
    /\ store0 \cap (Range(sent) \cup Range(quoteq) \cup Range(delivered) \cup {cur}) = {}
    /\ (~woken => (sent = <<>> /\ quoteq = <<>> /\ delivered = <<>> /\ cur = 0))

\* A pre-existing id stayed unsent through a drain that delivered a new one.
C12_Witness ==
    /\ store0 # {}
    /\ delivered # <<>>
    /\ wpc = "idle"

\* The quote send_quote is running for (or was, when the task ended in it).
inFlight == IF cur = 0 THEN <<>> ELSE <<cur>>

\* C13: the poll task has at most one send_quote in flight; it takes the
\* next quote only after the previous send_quote completed, and the quotes
\* are delivered in the order they were sent on the quote channel.
C13_SequentialInOrderDelivery ==
    /\ [](delivered \o inFlight \o quoteq = sent)
    /\ [](ppc = "sending" => cur # 0)
    /\ [][(cur' # cur /\ cur' # 0) => (cur = 0 /\ ppc = "recv")]_vars

\* A second send_quote runs after the first one completed.
C13_Witness ==
    /\ ppc = "sending"
    /\ delivered # <<>>

\* C14: a transaction that finds no id of the store outside seen_quotes
\* hands out no row and leaves seen_quotes as it was, also when rows it
\* had seen were deleted from the store; the drain sends nothing.
C14_EmptyDrainChangesNothing ==
    [][(wpc = "query" /\ wpc' \in {"idle", "forward"} /\ quotes \subseteq seen) =>
          /\ wpc' = "idle"
          /\ batch' = <<>>
          /\ seen' = seen
          /\ sent' = sent
          /\ quoteq' = quoteq]_vars

\* The latest drain sent nothing and a row deleted from the store is still
\* in seen_quotes.
C14_Witness ==
    /\ woken
    /\ wpc = "idle"
    /\ drainStart = Len(sent)
    /\ deletes > 0
    /\ quotes \subseteq seen
    /\ seen \ quotes # {}

\* C15: when the store cannot be opened or attached, startup is aborted
\* before the pipeline runs: no Sender is with the file watcher, no signal
\* is buffered, no poll task holds quote_rx.
C15_StoreFailureAbortsStartup ==
    wfail = "create" => ("fs" \notin senders /\ notify = 0 /\ ~QuoteRxOpen)

\* C16: a tick of send_timed_checks makes one try_send; when it returns
\* Closed the shutdown is requested; when it returns Full the signal is
\* dropped, nothing else changes and the loop goes on; when it returns Ok
\* one signal is buffered.
C16_TimedCheckTick ==
    /\ [](lastTick = "closed" => shutdown)
    /\ [](("timer" \in senders /\ mainpc = "running") => ENABLED TimerTick)
    /\ [][lastTick' # lastTick =>
            /\ (lastTick' = "closed" <=> ~NotifyRxOpen)
            /\ (lastTick' = "full" <=> (NotifyRxOpen /\ notify = NotifyCapacity))
            /\ (lastTick' = "ok" => notify' = notify + 1)
            /\ (lastTick' # "ok" => notify' = notify)
            /\ (lastTick' # "closed" => shutdown' = shutdown)
            /\ "timer" \in senders']_vars

\* A tick found the channel full, a later one found it closed.
C16_Witness ==
    /\ lastTick = "full"
    /\ notify = NotifyCapacity
    /\ ~shutdown
    /\ "timer" \in senders

\* C17 as stated: every id in seen_quotes was in the store when the worker
\* started or has already been forwarded on the quote channel.
C17_SeenIsPreexistingOrForwarded == seen \subseteq store0 \cup Range(sent)

\* C17: every id in seen_quotes was in the store when the worker started,
\* has been forwarded, or is a row of the committed batch that the forward
\* loop has not sent yet; ids that pre-existed are never forwarded.
C17_SeenIsPreexistingForwardedOrPending ==
    /\ seen \subseteq store0 \cup Range(sent) \cup Range(batch)
    /\ store0 \cap Range(sent) = {}
    /\ (wpc \in {"idle", "query", "done"} => seen \subseteq store0 \cup Range(sent))

\* The worker failed in the middle of a batch: one row forwarded, one
\* committed to seen_quotes and never sent.
C17_Witness ==
    /\ wpc = "panicked" /\ wfail = "send"
    /\ drainSent # <<>>
    /\ Range(batch) \ Range(sent) # {}
    /\ Range(batch) \subseteq seen

\* C18: a row is forwarded only when its id is already committed to
\* seen_quotes: everything forwarded or waiting in the batch is in
\* seen_quotes, each forward sends an id that was in seen_quotes before the
\* step, and a drain whose query or commit failed has forwarded nothing.
C18_ForwardOnlyAfterCommit ==
    /\ [](Range(sent) \cup Range(batch) \subseteq seen)
    /\ [][sent' # sent =>
            /\ Len(sent') = Len(sent) + 1
            /\ sent'[Len(sent')] \in seen
            /\ wpc = "forward"]_vars
    /\ [](wfail = "query" => (drainSent = <<>> /\ batch = <<>>))
    /\ [][(wfail' = "query" /\ wfail # "query") => (seen' = seen /\ sent' = sent)]_vars

\* A query failed while the store held rows that are not in seen_quotes,
\* after an earlier drain had forwarded.
C18_Witness ==
    /\ wfail = "query"
    /\ quotes \ seen # {}
    /\ sent # <<>>

\* C19: the notify channel never holds more than NotifyCapacity signals;
\* a push by the file watcher callback, the quote command or the interval
\* poller is one step that is enabled whatever the channel holds; a push on a
\* full or closed channel leaves its contents as they were and the producer
\* keeps its Sender; an accepted push adds exactly one signal.
C19_BoundedNonBlockingPush ==
    /\ [](notify \in 0..NotifyCapacity)
    /\ []((mainpc = "running" /\ "fs" \in senders) => ENABLED FsNotify)
    /\ []((mainpc = "running" /\ "cmd" \in senders) => ENABLED CmdNotify)
    /\ []((mainpc = "running" /\ "timer" \in senders) => ENABLED TimerTick)
    /\ [][(FsNotify \/ CmdNotify \/ TimerTick) =>
            /\ ((notify = NotifyCapacity \/ ~NotifyRxOpen) => notify' = notify)
            /\ ((notify < NotifyCapacity /\ NotifyRxOpen) => notify' = notify + 1)
            /\ senders' = senders
            /\ wpc' = wpc /\ mainpc' = mainpc]_vars
    /\ [][notify' > notify => (notify' = notify + 1 /\ NotifyRxOpen)]_vars

\* The receiver is gone with a full buffer, every producer still holds its
\* Sender, and the interval poller has pushed on the closed channel.
C19_Witness ==
    /\ notify = NotifyCapacity
    /\ ~NotifyRxOpen
    /\ lastTick = "closed"
    /\ senders = {"fs", "cmd", "timer"}

\* C20: every quote sent on the quote channel is eventually handed to
\* send_quote, unless the shutdown is triggered (a failed delivery triggers
\* it); no quote is delivered twice; once the shutdown is triggered the poll
\* task ends, and after it is cancelled the quotes still in the channel and
\* the one in flight are never delivered.
C20_DeliveredOnceOrCancelled ==
    /\ \A x \in Ids : (x \in Range(sent)) ~> (x \in Range(delivered) \/ shutdown)
    /\ [](\A i, j \in DOMAIN delivered : delivered[i] = delivered[j] => i = j)
    /\ [](Range(delivered) \subseteq Range(sent))
    /\ shutdown ~> PumpEnded
    /\ [][ppc = "cancelled" =>
            (ppc' = "cancelled" /\ delivered' = delivered /\ quoteq' = quoteq)]_vars

\* The poll task was cancelled after a delivery, with one quote still in the
\* channel.
C20_Witness ==
    /\ ppc = "cancelled"
    /\ delivered # <<>>
    /\ quoteq # <<>>

====
